---- MODULE Spec2Model ----
(***************************************************************************)
(* Model of the graph-explorer canvas camera.                              *)
(*                                                                         *)
(* Three specifications share this module:                                 *)
(*   SpecPure   - the pure coordinate functions of the camera variant      *)
(*                (screenToCanvas, canvasToScreen, panCamera, zoomCamera)  *)
(*                applied to inputs drawn from bounded sets;               *)
(*   SpecCamera - the camera variant of the Canvas component (one          *)
(*                `camera` state updated by functional setCamera calls);   *)
(*   Spec       - the incremental variant of the Canvas component (scale,  *)
(*                offset, viewportTopLeft, refs, document listeners and    *)
(*                the 2D context transform).                               *)
(*                                                                         *)
(* Numbers are JavaScript numbers without rounding: exact rationals plus   *)
(* the IEEE special values (signed zero, +/-Infinity, NaN), so that a      *)
(* division by zero yields what the program yields.  Rounding error of     *)
(* binary floating point is not modelled.                                  *)
(***************************************************************************)
EXTENDS Integers, Sequences, FiniteSets, TLC

VARIABLES
  args,            \* SpecPure: the inputs of the pure functions
  res,             \* SpecPure: the result of the last application
  cam,             \* camera variant: the rendered `camera` state
  camQueue,        \* camera variant: setCamera updaters not yet rendered
  camEvents,       \* camera variant: number of wheel events delivered
  props,           \* incremental variant: [canvasWidth, canvasHeight]
  context,         \* useState: FALSE is null, TRUE is the 2D context
  scale,           \* useState
  offset,          \* useState
  offsetIsORIGIN,  \* whether `offset` is the frozen ORIGIN object itself
  viewportTopLeft, \* useState
  mousePos,        \* useState
  pending,         \* state updates enqueued and not yet rendered
  isResetRef,      \* useRef
  lastOffsetRef,   \* useRef
  lastMousePosRef, \* useRef
  docListeners,    \* listeners registered on `document`
  transform,       \* current transform of the 2D context
  canvas,          \* [width, height] of the canvas element
  resetDims,       \* the props of the last reset that configured the surface
  mounted,         \* the first commit has happened
  nEvents,         \* number of input events delivered
  hist,            \* observations of the event history
  serial           \* the same events, each followed by its render

pureVars == <<args, res>>
cameraVars == <<cam, camQueue, camEvents>>
machineVars ==
  <<props, context, scale, offset, offsetIsORIGIN, viewportTopLeft, mousePos,
    pending, isResetRef, lastOffsetRef, lastMousePosRef, docListeners,
    transform, canvas, resetDims>>
canvasVars == <<machineVars, mounted, nEvents, hist, serial>>
vars == <<pureVars, cameraVars, canvasVars>>

(***************************************************************************)
(* JavaScript numbers: <<n, d>>                                            *)
(*   d > 0, n # 0 : the rational n/d in lowest terms                       *)
(*   <<0, 1>> = +0, <<0, -1>> = -0                                         *)
(*   <<1, 0>> = +Infinity, <<-1, 0>> = -Infinity, <<0, 0>> = NaN           *)
(***************************************************************************)
Abs(n) == IF n < 0 THEN -n ELSE n

RECURSIVE GCD(_, _)
GCD(a, b) == IF b = 0 THEN a ELSE GCD(b, a % b)

NaN == <<0, 0>>
PZero == <<0, 1>>
NZero == <<0, -1>>

IsNaN(a) == a = NaN
IsInf(a) == a[2] = 0 /\ a[1] # 0
IsZero(a) == a[1] = 0 /\ a[2] # 0
IsFinite(a) == a[2] # 0

Sgn(a) == IF a[1] > 0 THEN 1 ELSE IF a[1] < 0 THEN -1 ELSE a[2]
SignedZero(s) == <<0, s>>
SignedInf(s) == <<s, 0>>

\* n/d for integers n, d with d # 0
Rat(n, d) ==
  IF n = 0 THEN PZero
  ELSE LET g == GCD(Abs(n), Abs(d))
           s == IF d < 0 THEN -1 ELSE 1
       IN <<(s * n) \div g, (s * d) \div g>>

Int2Num(n) == Rat(n, 1)

Neg(a) == IF IsZero(a) THEN <<0, -a[2]>> ELSE <<-a[1], a[2]>>

Add(a, b) ==
  IF IsNaN(a) \/ IsNaN(b) THEN NaN
  ELSE IF IsInf(a) THEN (IF IsInf(b) /\ b # a THEN NaN ELSE a)
  ELSE IF IsInf(b) THEN b
  ELSE IF IsZero(a) /\ IsZero(b)
       THEN (IF a = NZero /\ b = NZero THEN NZero ELSE PZero)
  ELSE Rat(a[1] * Abs(b[2]) + b[1] * Abs(a[2]), Abs(a[2]) * Abs(b[2]))

Sub(a, b) == Add(a, Neg(b))

Mul(a, b) ==
  IF IsNaN(a) \/ IsNaN(b) THEN NaN
  ELSE IF (IsInf(a) /\ IsZero(b)) \/ (IsZero(a) /\ IsInf(b)) THEN NaN
  ELSE IF IsInf(a) \/ IsInf(b) THEN SignedInf(Sgn(a) * Sgn(b))
  ELSE IF IsZero(a) \/ IsZero(b) THEN SignedZero(Sgn(a) * Sgn(b))
  ELSE Rat(a[1] * b[1], a[2] * b[2])

Div(a, b) ==
  IF IsNaN(a) \/ IsNaN(b) THEN NaN
  ELSE IF (IsInf(a) /\ IsInf(b)) \/ (IsZero(a) /\ IsZero(b)) THEN NaN
  ELSE IF IsInf(a) \/ IsZero(b) THEN SignedInf(Sgn(a) * Sgn(b))
  ELSE IF IsZero(a) \/ IsInf(b) THEN SignedZero(Sgn(a) * Sgn(b))
  ELSE Rat(a[1] * b[2], a[2] * b[1])

\* JavaScript ===  on numbers: NaN equals nothing, +0 equals -0
NumEq(a, b) ==
  /\ ~IsNaN(a)
  /\ ~IsNaN(b)
  /\ (a = b \/ (IsZero(a) /\ IsZero(b)))

\* JavaScript  a > 0
Positive(a) == a[1] > 0

One == Int2Num(1)

(***************************************************************************)
(* Points and cameras                                                      *)
(***************************************************************************)
Pt(x, y) == [x |-> x, y |-> y]
IntPt(x, y) == Pt(Int2Num(x), Int2Num(y))

PointEq(p, q) == NumEq(p.x, q.x) /\ NumEq(p.y, q.y)
CameraEq(c, d) == NumEq(c.x, d.x) /\ NumEq(c.y, d.y) /\ NumEq(c.z, d.z)

ORIGIN == IntPt(0, 0)

TOUCHPAD_ZOOM_SENS == 200
TOUCHPAD_PAN_SENS == 1

IdentityCamera == [x |-> ORIGIN.x, y |-> ORIGIN.y, z |-> One]

screenToCanvas(point, camera) ==
  Pt(Sub(Div(point.x, camera.z), camera.x),
     Sub(Div(point.y, camera.z), camera.y))

\* the offset applied after the scale instead of before it
canvasToScreenOffsetAfterScale(point, camera) ==
  Pt(Add(Mul(point.x, camera.z), camera.x),
     Add(Mul(point.y, camera.z), camera.y))

canvasToScreen(point, camera) ==
  Pt(Mul(Add(point.x, camera.x), camera.z),
     Mul(Add(point.y, camera.y), camera.z))

getViewport(camera, box) ==
  LET topLeftCanvas == screenToCanvas(box.topLeft, camera)
      bottomRightCanvas == screenToCanvas(box.bottomRight, camera)
  IN [topLeft |-> topLeftCanvas,
      bottomRight |-> bottomRightCanvas,
      width |-> Sub(bottomRightCanvas.x, topLeftCanvas.x),
      height |-> Sub(bottomRightCanvas.y, topLeftCanvas.y)]

\* the whole difference divided by the scale, not the delta alone
\* the delta not divided by the scale
panCameraUnscaled(camera, dx, dy) ==
  [x |-> Sub(camera.x, dx),
   y |-> Sub(camera.y, dy),
   z |-> camera.z]

panCameraDivideAll(camera, dx, dy) ==
  [x |-> Div(Sub(camera.x, dx), camera.z),
   y |-> Div(Sub(camera.y, dy), camera.z),
   z |-> camera.z]

panCamera(camera, dx, dy) ==
  [x |-> Sub(camera.x, Div(dx, camera.z)),
   y |-> Sub(camera.y, Div(dy, camera.z)),
   z |-> camera.z]

\* the scale delta subtracted, not multiplied by the scale
zoomCameraAdditive(camera, point, dz) ==
  LET zoom == Sub(camera.z, dz)
      p1 == screenToCanvas(point, camera)
      p2 == screenToCanvas(point, [camera EXCEPT !.z = zoom])
  IN [x |-> Add(camera.x, Sub(p2.x, p1.x)),
      y |-> Add(camera.y, Sub(p2.y, p1.y)),
      z |-> zoom]

\* the scale changed without moving the offset
zoomCameraKeepOffset(camera, point, dz) ==
  [x |-> camera.x,
   y |-> camera.y,
   z |-> Sub(camera.z, Mul(dz, camera.z))]

zoomCamera(camera, point, dz) ==
  LET zoom == Sub(camera.z, Mul(dz, camera.z))
      p1 == screenToCanvas(point, camera)
      p2 == screenToCanvas(point, [camera EXCEPT !.z = zoom])
  IN [x |-> Add(camera.x, Sub(p2.x, p1.x)),
      y |-> Add(camera.y, Sub(p2.y, p1.y)),
      z |-> zoom]

(***************************************************************************)
(* SpecPure: the pure functions applied to bounded inputs                  *)
(***************************************************************************)
MaxCoord == 1
MaxScale == 2

PureCoords == {Int2Num(n) : n \in -MaxCoord..MaxCoord}
PureScales == {Rat(n, d) : n \in 1..MaxScale, d \in 1..MaxScale}
PureDeltas == {Rat(n, d) : n \in -MaxScale..MaxScale, d \in 1..MaxScale}
PurePoints == {Pt(x, y) : x \in PureCoords, y \in PureCoords}
PureCameras ==
  {[x |-> x, y |-> y, z |-> z] : x \in PureCoords, y \in PureCoords, z \in PureScales}
PureSteps == {Pt(Int2Num(n), Int2Num(1 - n)) : n \in -MaxCoord..MaxCoord}

NoArgs == [c |-> IdentityCamera, p |-> ORIGIN]
NoResult == [op |-> "none"]

PureInit ==
  /\ args \in [c : PureCameras, p : PurePoints]
  /\ res = NoResult

ApplyScreenToCanvas ==
  /\ res = NoResult
  /\ res' = [op |-> "screenToCanvas",
             out |-> screenToCanvas(args.p, args.c),
             back |-> canvasToScreen(screenToCanvas(args.p, args.c), args.c)]
  /\ UNCHANGED <<args, cameraVars, canvasVars>>

ApplyCanvasToScreen ==
  /\ res = NoResult
  /\ res' = [op |-> "canvasToScreen",
             out |-> canvasToScreen(args.p, args.c),
             back |-> screenToCanvas(canvasToScreen(args.p, args.c), args.c)]
  /\ UNCHANGED <<args, cameraVars, canvasVars>>

ApplyGetViewport ==
  /\ res = NoResult
  /\ \E q \in PureSteps :
       res' = [op |-> "getViewport",
               out |-> getViewport(args.c,
                         [topLeft |-> args.p,
                          bottomRight |-> Pt(Add(args.p.x, q.x), Add(args.p.y, q.y)),
                          width |-> q.x, height |-> q.y])]
  /\ UNCHANGED <<args, cameraVars, canvasVars>>

ApplyPanCamera ==
  /\ res = NoResult
  /\ \E q \in PureSteps :
       res' = [op |-> "panCamera",
               d1 |-> args.p,
               d2 |-> q,
               out |-> panCamera(args.c, args.p.x, args.p.y),
               twice |-> panCamera(panCamera(args.c, args.p.x, args.p.y), q.x, q.y),
               sum |-> panCamera(args.c, Add(args.p.x, q.x), Add(args.p.y, q.y))]
  /\ UNCHANGED <<args, cameraVars, canvasVars>>

ApplyZoomCamera ==
  /\ res = NoResult
  /\ \E dz \in PureDeltas :
       res' = [op |-> "zoomCamera",
               dz |-> dz,
               out |-> zoomCamera(args.c, args.p, dz)]
  /\ UNCHANGED <<args, cameraVars, canvasVars>>

PureNext ==
  \/ ApplyScreenToCanvas
  \/ ApplyCanvasToScreen
  \/ ApplyGetViewport
  \/ ApplyPanCamera
  \/ ApplyZoomCamera

(***************************************************************************)
(* SpecCamera: the camera variant of the Canvas component.  The wheel      *)
(* handler enqueues a functional setCamera updater; a render applies the   *)
(* enqueued updaters in order.                                             *)
(***************************************************************************)
MaxCameraEvents == 3

EventPoints == {IntPt(10, 10), IntPt(30, 25)}
WheelDeltas == {-200, 100, 500}

\* the updater handleWheel passes to setCamera
handleWheelUpdater(x, y, deltaX, deltaY, ctrlKey) ==
  IF ctrlKey
  THEN [kind |-> "zoomCamera", point |-> Pt(x, y),
        dz |-> Div(deltaY, Int2Num(TOUCHPAD_ZOOM_SENS))]
  ELSE [kind |-> "panCamera",
        dx |-> Mul(deltaX, Int2Num(TOUCHPAD_PAN_SENS)),
        dy |-> Mul(deltaY, Int2Num(TOUCHPAD_PAN_SENS))]

applyUpdater(c, u) ==
  IF u.kind = "zoomCamera" THEN zoomCamera(c, u.point, u.dz)
  ELSE panCamera(c, u.dx, u.dy)

RECURSIVE applyUpdaters(_, _)
applyUpdaters(c, q) ==
  IF q = <<>> THEN c ELSE applyUpdaters(applyUpdater(c, Head(q)), Tail(q))

CameraInit ==
  /\ cam = IdentityCamera
  /\ camQueue = <<>>
  /\ camEvents = 0

CameraWheel ==
  /\ camEvents < MaxCameraEvents
  /\ \E p \in EventPoints, deltaX \in {0, 100}, deltaY \in WheelDeltas, ctrlKey \in BOOLEAN :
       camQueue' = Append(camQueue,
                     handleWheelUpdater(p.x, p.y, Int2Num(deltaX), Int2Num(deltaY), ctrlKey))
  /\ camEvents' = camEvents + 1
  /\ UNCHANGED <<cam, pureVars, canvasVars>>

CameraRender ==
  /\ camQueue # <<>>
  /\ cam' = applyUpdaters(cam, camQueue)
  /\ camQueue' = <<>>
  /\ UNCHANGED <<camEvents, pureVars, canvasVars>>

CameraNext == CameraWheel \/ CameraRender

PureIdle ==
  /\ args = NoArgs
  /\ res = NoResult

(***************************************************************************)
(* Spec: the incremental variant of the Canvas component.                  *)
(*                                                                         *)
(* A machine record m holds the component's state, its refs, the state     *)
(* updates enqueued and not yet rendered, the document listeners and the   *)
(* drawing surface.  Every handler and effect is an operator from machine  *)
(* to machine.  Native listeners (mousemove, touchmove, wheel) enqueue     *)
(* updates that a later render applies in order; updates enqueued by a     *)
(* React handler (the reset button) or by a layout effect are rendered     *)
(* before the next event.                                                  *)
(***************************************************************************)
ratio == 2
ZOOM_SENSITIVITY == 500
PINCH_SENSITIVITY == 200

\* offsetLeft / offsetTop of the canvas element
topLeftCanvasPos == IntPt(0, 5)

diffPoints(a, b) == Pt(Sub(a.x, b.x), Sub(a.y, b.y))

addPoints(a, b) == Pt(Add(a.x, b.x), Add(a.y, b.y))

scalePoint(a, scalar) == Pt(Div(a.x, scalar), Div(a.y, scalar))

\* The context transform: x' = a*x + e, y' = a*y + f (the program only ever
\* scales both axes by the same factor).
IdentityTransform == [a |-> One, e |-> PZero, f |-> PZero]

ctxTranslate(t, x, y) ==
  [t EXCEPT !.e = Add(t.e, Mul(t.a, x)), !.f = Add(t.f, Mul(t.a, y))]

ctxScale(t, s) ==
  [a |-> Mul(t.a, s), e |-> t.e, f |-> t.f]

Machine ==
  [props |-> props, context |-> context, scale |-> scale, offset |-> offset,
   offsetIsORIGIN |-> offsetIsORIGIN, viewportTopLeft |-> viewportTopLeft,
   mousePos |-> mousePos, pending |-> pending, isResetRef |-> isResetRef,
   lastOffsetRef |-> lastOffsetRef, lastMousePosRef |-> lastMousePosRef,
   docListeners |-> docListeners, transform |-> transform, canvas |-> canvas,
   resetDims |-> resetDims]

Install(m) ==
  /\ props' = m.props
  /\ context' = m.context
  /\ scale' = m.scale
  /\ offset' = m.offset
  /\ offsetIsORIGIN' = m.offsetIsORIGIN
  /\ viewportTopLeft' = m.viewportTopLeft
  /\ mousePos' = m.mousePos
  /\ pending' = m.pending
  /\ isResetRef' = m.isResetRef
  /\ lastOffsetRef' = m.lastOffsetRef
  /\ lastMousePosRef' = m.lastMousePosRef
  /\ docListeners' = m.docListeners
  /\ transform' = m.transform
  /\ canvas' = m.canvas
  /\ resetDims' = m.resetDims

\* setX(value) is kind "set"; setOffset(prev => addPoints(prev, d)) is "add";
\* setViewportTopLeft(prev => diffPoints(prev, d)) is "sub"
setState(m, hook, kind, val) ==
  [m EXCEPT !.pending = Append(@, [hook |-> hook, kind |-> kind, val |-> val])]

applyUpdate(m, u) ==
  CASE u.hook = "scale" -> [m EXCEPT !.scale = u.val]
    [] u.hook = "context" -> [m EXCEPT !.context = u.val]
    [] u.hook = "mousePos" -> [m EXCEPT !.mousePos = u.val]
    [] u.hook = "offset" /\ u.kind = "set" ->
         [m EXCEPT !.offset = u.val, !.offsetIsORIGIN = TRUE]
    [] u.hook = "offset" /\ u.kind = "add" ->
         [m EXCEPT !.offset = addPoints(m.offset, u.val), !.offsetIsORIGIN = FALSE]
    [] u.hook = "viewportTopLeft" /\ u.kind = "set" ->
         [m EXCEPT !.viewportTopLeft = u.val]
    [] u.hook = "viewportTopLeft" /\ u.kind = "sub" ->
         [m EXCEPT !.viewportTopLeft = diffPoints(m.viewportTopLeft, u.val)]

RECURSIVE applyUpdates(_, _)
applyUpdates(m, q) ==
  IF q = <<>> THEN m ELSE applyUpdates(applyUpdate(m, Head(q)), Tail(q))

canvasSize(p) ==
  [width |-> p.canvasWidth * ratio, height |-> p.canvasHeight * ratio]

\* Assigning canvas.width or canvas.height resets the context, its transform
\* included.
reset(m) ==
  IF ~m.isResetRef
  THEN LET m1 == [m EXCEPT !.canvas = canvasSize(m.props),
                           !.transform = ctxScale(IdentityTransform, Int2Num(ratio)),
                           !.resetDims = m.props]
           m2 == setState(m1, "scale", "set", One)
           m3 == setState(m2, "context", "set", TRUE)
           m4 == setState(m3, "offset", "set", ORIGIN)
           m5 == setState(m4, "mousePos", "set", ORIGIN)
           m6 == setState(m5, "viewportTopLeft", "set", ORIGIN)
       IN [m6 EXCEPT !.lastOffsetRef = ORIGIN,
                     !.lastMousePosRef = ORIGIN,
                     !.isResetRef = TRUE]
  ELSE m

\* the drawing effect: getTransform, canvas.width = canvas.width, setTransform
redraw(m) ==
  IF m.context
  THEN LET storedTransform == m.transform
           cleared == [m EXCEPT !.transform = IdentityTransform]
       IN [cleared EXCEPT !.transform = storedTransform]
  ELSE m

\* useLayoutEffect(..., [context, offset, scale])
\* translateBy that leaves isResetRef as it is
translateByKeepFlag(m, offsetDiff) ==
  setState([m EXCEPT !.transform = ctxTranslate(@, offsetDiff.x, offsetDiff.y)],
           "viewportTopLeft", "sub", offsetDiff)

translateBy(m, offsetDiff) ==
  [setState([m EXCEPT !.transform = ctxTranslate(@, offsetDiff.x, offsetDiff.y)],
            "viewportTopLeft", "sub", offsetDiff)
   EXCEPT !.isResetRef = FALSE]

\* offsetEffect without the division by the scale
offsetEffectUnscaled(m) ==
  IF m.context
  THEN translateBy(m, diffPoints(m.offset, m.lastOffsetRef))
  ELSE m

offsetEffect(m) ==
  IF m.context
  THEN translateBy(m, scalePoint(diffPoints(m.offset, m.lastOffsetRef), m.scale))
  ELSE m

\* useEffect(() => { lastOffsetRef.current = offset }, [offset])
lastOffsetEffect(m) == [m EXCEPT !.lastOffsetRef = m.offset]

\* the width/height attributes of the canvas element follow the props
commitCanvasAttributes(m) ==
  [m EXCEPT !.canvas = canvasSize(m.props), !.transform = IdentityTransform]

\* the layout effects whose dependencies changed, in declaration order, then
\* the passive effect
resetEffect(m, run) == IF run THEN reset(m) ELSE m

runOffsetEffect(m, run) == IF run THEN offsetEffect(m) ELSE m

runLastOffsetEffect(m, run) == IF run THEN lastOffsetEffect(m) ELSE m

commitEffects(m, dimsChanged, resetDeps, offsetDeps, lastOffsetDeps) ==
  runLastOffsetEffect(
    runOffsetEffect(
      redraw(
        resetEffect(IF dimsChanged THEN commitCanvasAttributes(m) ELSE m, resetDeps)),
      offsetDeps),
    lastOffsetDeps)

\* m is the machine before the render, r the machine with the enqueued
\* updates applied
offsetChanged(m, r) ==
  /\ \E i \in 1..Len(m.pending) : m.pending[i].hook = "offset"
  /\ ~(m.offsetIsORIGIN /\ r.offsetIsORIGIN)

commitRender(m, r, first, dimsChanged) ==
  commitEffects(r, dimsChanged,
    first \/ dimsChanged,
    first \/ r.context # m.context \/ offsetChanged(m, r) \/ r.scale # m.scale,
    first \/ offsetChanged(m, r))

\* One render and commit: the enqueued updates are applied in order, then the
\* effects run.
renderPass(m, first, dimsChanged) ==
  commitRender(m, applyUpdates([m EXCEPT !.pending = <<>>], m.pending), first, dimsChanged)

\* Updates enqueued by layout effects are rendered synchronously.
RECURSIVE renderAll(_, _, _)
renderAgain(r) == IF r.pending = <<>> THEN r ELSE renderAll(r, FALSE, FALSE)

renderAll(m, first, dimsChanged) == renderAgain(renderPass(m, first, dimsChanged))

handleUpdateMouse(m, e) ==
  LET viewportMousePos == Pt(e.clientX, e.clientY)
  IN setState(m, "mousePos", "set", diffPoints(viewportMousePos, topLeftCanvasPos))

wheelZoom(e) ==
  IF e.ctrlKey
  THEN Sub(One, Div(e.deltaY, Int2Num(PINCH_SENSITIVITY)))
  ELSE Sub(One, Div(e.deltaY, Int2Num(ZOOM_SENSITIVITY)))

\* viewportTopLeftDelta without the division by the scale
viewportTopLeftDeltaUnscaled(m, zoom) ==
  Pt(Mul(m.mousePos.x, Sub(One, Div(One, zoom))),
     Mul(m.mousePos.y, Sub(One, Div(One, zoom))))

viewportTopLeftDelta(m, zoom) ==
  Pt(Mul(Div(m.mousePos.x, m.scale), Sub(One, Div(One, zoom))),
     Mul(Div(m.mousePos.y, m.scale), Sub(One, Div(One, zoom))))

\* wheelTransform without the translation back to the origin before scaling
wheelTransformFromCorner(t, viewportTopLeft_, zoom, newViewportTopLeft) ==
  ctxTranslate(ctxScale(t, zoom), Neg(newViewportTopLeft.x), Neg(newViewportTopLeft.y))

wheelTransform(t, viewportTopLeft_, zoom, newViewportTopLeft) ==
  ctxTranslate(
    ctxScale(ctxTranslate(t, viewportTopLeft_.x, viewportTopLeft_.y), zoom),
    Neg(newViewportTopLeft.x), Neg(newViewportTopLeft.y))

\* wheelUpdate that also records the pointer as the last pan position
wheelUpdateTrackPointer(m, zoom, newViewportTopLeft) ==
  [setState(
     setState(
       [m EXCEPT !.transform =
          wheelTransform(m.transform, m.viewportTopLeft, zoom, newViewportTopLeft)],
       "viewportTopLeft", "set", newViewportTopLeft),
     "scale", "set", Mul(m.scale, zoom))
   EXCEPT !.isResetRef = FALSE, !.lastMousePosRef = m.mousePos]

wheelUpdate(m, zoom, newViewportTopLeft) ==
  [setState(
     setState(
       [m EXCEPT !.transform =
          wheelTransform(m.transform, m.viewportTopLeft, zoom, newViewportTopLeft)],
       "viewportTopLeft", "set", newViewportTopLeft),
     "scale", "set", Mul(m.scale, zoom))
   EXCEPT !.isResetRef = FALSE]

wheelZoomBy(m, zoom) ==
  wheelUpdate(m, zoom, addPoints(m.viewportTopLeft, viewportTopLeftDelta(m, zoom)))

\* the handler closes over context, mousePos, scale and viewportTopLeft of the
\* last render
handleWheel(m, e) == IF m.context THEN wheelZoomBy(m, wheelZoom(e)) ELSE m

\* ctx is the context the registered callback closed over
mouseMove(m, e, ctx) ==
  IF ctx
  THEN LET lastMousePos == m.lastMousePosRef
           currentMousePos == Pt(e.pageX, e.pageY)
           mouseDiff == diffPoints(currentMousePos, lastMousePos)
       IN setState([m EXCEPT !.lastMousePosRef = currentMousePos],
                   "offset", "add", mouseDiff)
  ELSE m

\* mouseUp that removes the mouseup listener only
mouseUpKeepMove(m, ctx) ==
  [m EXCEPT !.docListeners = @ \ {<<"mouseup", ctx>>}]

mouseUp(m, ctx) ==
  [m EXCEPT !.docListeners = @ \ {<<"mousemove", ctx>>, <<"mouseup", ctx>>}]

startPan(m, e) ==
  [m EXCEPT !.docListeners = @ \cup {<<"mousemove", m.context>>, <<"mouseup", m.context>>},
            !.lastMousePosRef = Pt(e.pageX, e.pageY)]

touchMove(m, e, ctx) ==
  IF ctx
  THEN LET lastMousePos == m.lastMousePosRef
           currentMousePos == Pt(e.touches[1].pageX, e.touches[1].pageY)
           touchDiff == diffPoints(currentMousePos, lastMousePos)
       IN setState([m EXCEPT !.lastMousePosRef = currentMousePos],
                   "offset", "add", touchDiff)
  ELSE m

\* touchEnd that removes the touchend listener only
touchEndKeepMove(m, ctx) ==
  [m EXCEPT !.docListeners = @ \ {<<"touchend", ctx>>}]

touchEnd(m, ctx) ==
  [m EXCEPT !.docListeners = @ \ {<<"touchmove", ctx>>, <<"touchend", ctx>>}]

handleTouch(m, e) ==
  LET m1 == [m EXCEPT !.docListeners =
               @ \cup {<<"touchmove", m.context>>, <<"touchend", m.context>>}]
  IN IF Len(e.touches) = 1
     THEN [m1 EXCEPT !.lastMousePosRef = Pt(e.touches[1].pageX, e.touches[1].pageY)]
     ELSE m1

(***************************************************************************)
(* Events: what one DOM event runs, in dispatch order                      *)
(***************************************************************************)
mouseEvent(p) == [pageX |-> p.x, pageY |-> p.y, clientX |-> p.x, clientY |-> p.y]

wheelEventAt(p, deltaY, ctrlKey) ==
  [clientX |-> p.x, clientY |-> p.y, deltaY |-> Int2Num(deltaY), ctrlKey |-> ctrlKey]

touchEvent(p, fingers) ==
  [touches |-> [i \in 1..fingers |-> [pageX |-> p.x, pageY |-> p.y]]]

\* mousedown on the canvas: onMouseDown={startPan}
mouseDownEvent(m, p) == startPan(m, mouseEvent(p))

Listening(m, type, ctx) == <<type, ctx>> \in m.docListeners

mouseMoveIf(m, e, ctx, listening) == IF listening THEN mouseMove(m, e, ctx) ELSE m

mouseUpIf(m, ctx, listening) == IF listening THEN mouseUp(m, ctx) ELSE m

touchMoveIf(m, e, ctx, listening) == IF listening THEN touchMove(m, e, ctx) ELSE m

touchEndIf(m, ctx, listening) == IF listening THEN touchEnd(m, ctx) ELSE m

\* mousemove over the canvas: handleUpdateMouse, then the mousemove listeners
\* of the document
mouseMoveEvent(m, p) ==
  mouseMoveIf(
    mouseMoveIf(handleUpdateMouse(m, mouseEvent(p)), mouseEvent(p), FALSE,
                Listening(m, "mousemove", FALSE)),
    mouseEvent(p), TRUE, Listening(m, "mousemove", TRUE))

mouseUpEvent(m) ==
  mouseUpIf(mouseUpIf(m, FALSE, Listening(m, "mouseup", FALSE)),
            TRUE, Listening(m, "mouseup", TRUE))

\* touchstart on the canvas: onTouchStart={handleTouch}
touchStartEvent(m, p, fingers) == handleTouch(m, touchEvent(p, fingers))

touchMoveEvent(m, p) ==
  touchMoveIf(
    touchMoveIf(m, touchEvent(p, 1), FALSE, Listening(m, "touchmove", FALSE)),
    touchEvent(p, 1), TRUE, Listening(m, "touchmove", TRUE))

touchEndEvent(m) ==
  touchEndIf(touchEndIf(m, FALSE, Listening(m, "touchend", FALSE)),
             TRUE, Listening(m, "touchend", TRUE))

\* wheel on the canvas: handleUpdateMouse and handleWheel
wheelEvent(m, p, deltaY, ctrlKey) ==
  handleWheel(handleUpdateMouse(m, wheelEventAt(p, deltaY, ctrlKey)),
              wheelEventAt(p, deltaY, ctrlKey))

\* onClick={() => context && reset(context)}; the updates of a React handler
\* are rendered when the handler returns
renderIfUpdated(m, r) == IF r = m THEN m ELSE renderAll(r, FALSE, FALSE)

resetClick(m) == renderIfUpdated(m, IF m.context THEN reset(m) ELSE m)

\* the parent renders the component with other props
resize(m, d) == renderAll([m EXCEPT !.props = d], FALSE, TRUE)

settle(m) == IF m.pending = <<>> THEN m ELSE renderAll(m, FALSE, FALSE)

(***************************************************************************)
(* The state machine                                                       *)
(***************************************************************************)
MaxEvents == 4

Dims == {[canvasWidth |-> 500, canvasHeight |-> 500],
         [canvasWidth |-> 300, canvasHeight |-> 200]}

WheelInputs == {<<-200, TRUE>>, <<250, FALSE>>, <<500, FALSE>>}

\* where a pan starts, and where the wheel turns; moves go to any event point
StartPoints == {IntPt(10, 10)}

WheelPoints == {IntPt(30, 25)}

NoSession == [clean |-> FALSE]

InitialMachine ==
  [props |-> [canvasWidth |-> 500, canvasHeight |-> 500],
   context |-> FALSE, scale |-> One, offset |-> ORIGIN, offsetIsORIGIN |-> TRUE,
   viewportTopLeft |-> ORIGIN, mousePos |-> ORIGIN, pending |-> <<>>,
   isResetRef |-> FALSE, lastOffsetRef |-> ORIGIN, lastMousePosRef |-> ORIGIN,
   docListeners |-> {}, transform |-> IdentityTransform,
   canvas |-> canvasSize([canvasWidth |-> 500, canvasHeight |-> 500]),
   resetDims |-> [canvasWidth |-> 0, canvasHeight |-> 0]]

InitialHist ==
  [mousePan |-> FALSE, touchPan |-> FALSE, resetInPan |-> FALSE,
   resets |-> 0, resized |-> FALSE, posOwner |-> "none", session |-> NoSession]

CanvasInit ==
  /\ props = InitialMachine.props
  /\ context = InitialMachine.context
  /\ scale = InitialMachine.scale
  /\ offset = InitialMachine.offset
  /\ offsetIsORIGIN = InitialMachine.offsetIsORIGIN
  /\ viewportTopLeft = InitialMachine.viewportTopLeft
  /\ mousePos = InitialMachine.mousePos
  /\ pending = InitialMachine.pending
  /\ isResetRef = InitialMachine.isResetRef
  /\ lastOffsetRef = InitialMachine.lastOffsetRef
  /\ lastMousePosRef = InitialMachine.lastMousePosRef
  /\ docListeners = InitialMachine.docListeners
  /\ transform = InitialMachine.transform
  /\ canvas = InitialMachine.canvas
  /\ resetDims = InitialMachine.resetDims
  /\ mounted = FALSE
  /\ nEvents = 0
  /\ hist = InitialHist
  /\ serial = InitialMachine

HasPendingOffset == \E i \in 1..Len(pending) : pending[i].hook = "offset"

StartSession(device, p) ==
  IF pending = <<>> /\ docListeners = {}
  THEN [clean |-> TRUE, device |-> device, p0 |-> p, last |-> p,
        viewportTopLeft0 |-> viewportTopLeft, offset0 |-> offset, scale0 |-> scale,
        moves |-> 0, batched |-> FALSE]
  ELSE NoSession

MoveSession(device, p) ==
  IF hist.session.clean /\ hist.session.device = device
  THEN [hist.session EXCEPT !.last = p, !.moves = IF @ < 2 THEN @ + 1 ELSE @,
                            !.batched = @ \/ HasPendingOffset]
  ELSE NoSession

\* hist.posOwner: what recorded lastMousePosRef last: "reset", a pan-start or
\* move of the mouse or touch session in progress ("mouse", "touch"), or a
\* session that has ended since ("ended")
\* hist.resets: 0 when the last event was not a reset; 1 after a reset whose
\* body ran; 2 after reset was called again right after it
ResetsAfter(ran) ==
  IF hist.resets >= 1 THEN 2 ELSE IF ran THEN 1 ELSE 0

\* An input event: H is what the event runs.  nEvents counts the events that
\* had an effect.
Deliver(H(_), h) ==
  /\ mounted
  /\ nEvents < MaxEvents
  /\ \E after \in {H(Machine)} :
       /\ Install(after)
       /\ nEvents' = IF after = Machine /\ h = hist THEN nEvents ELSE nEvents + 1
       /\ serial' = IF serial = Machine THEN settle(after) ELSE settle(H(serial))
  /\ hist' = h
  /\ UNCHANGED <<mounted, pureVars, cameraVars>>

Mount ==
  /\ ~mounted
  /\ \E after \in {renderAll(Machine, TRUE, FALSE)} : Install(after)
  /\ serial' = renderAll(serial, TRUE, FALSE)
  /\ mounted' = TRUE
  /\ hist' = [hist EXCEPT !.resets = 1, !.posOwner = "reset"]
  /\ UNCHANGED <<nEvents, pureVars, cameraVars>>

Render ==
  /\ mounted
  /\ pending # <<>>
  /\ \E after \in {renderAll(Machine, FALSE, FALSE)} : Install(after)
  /\ UNCHANGED <<serial, mounted, nEvents, hist, pureVars, cameraVars>>

MouseDown ==
  \E p \in StartPoints :
    Deliver(LAMBDA m : mouseDownEvent(m, p),
            [hist EXCEPT !.mousePan = TRUE, !.resetInPan = FALSE, !.resets = 0,
                         !.posOwner = "mouse",
                         !.session = StartSession("mouse", p)])

MouseMove ==
  \E p \in EventPoints :
    Deliver(LAMBDA m : mouseMoveEvent(m, p),
            [hist EXCEPT !.resets = 0,
                         !.posOwner = IF <<"mousemove", TRUE>> \in docListeners
                                      THEN "mouse" ELSE @,
                         !.session = IF <<"mousemove", TRUE>> \in docListeners
                                     THEN MoveSession("mouse", p) ELSE @])

MouseUp ==
  Deliver(LAMBDA m : mouseUpEvent(m),
          [hist EXCEPT !.mousePan = FALSE, !.resets = 0,
                       !.posOwner = IF @ = "mouse" THEN "ended" ELSE @])

TouchStart ==
  \E p \in StartPoints, fingers \in 1..2 :
    Deliver(LAMBDA m : touchStartEvent(m, p, fingers),
            [hist EXCEPT !.touchPan = TRUE, !.resetInPan = FALSE, !.resets = 0,
                         !.posOwner = IF fingers = 1 THEN "touch" ELSE @,
                         !.session = IF fingers = 1 THEN StartSession("touch", p)
                                     ELSE NoSession])

TouchMove ==
  \E p \in EventPoints :
    Deliver(LAMBDA m : touchMoveEvent(m, p),
            [hist EXCEPT !.resets = 0,
                         !.posOwner = IF <<"touchmove", TRUE>> \in docListeners
                                      THEN "touch" ELSE @,
                         !.session = IF <<"touchmove", TRUE>> \in docListeners
                                     THEN MoveSession("touch", p) ELSE @])

TouchEnd ==
  Deliver(LAMBDA m : touchEndEvent(m),
          [hist EXCEPT !.touchPan = FALSE, !.resets = 0,
                       !.posOwner = IF @ = "touch" THEN "ended" ELSE @])

WheelBy(ctrlKey) ==
  \E p \in WheelPoints, w \in WheelInputs :
    /\ w[2] = ctrlKey
    /\ Deliver(LAMBDA m : wheelEvent(m, p, w[1], ctrlKey),
               [hist EXCEPT !.session = NoSession, !.resets = 0])

Wheel == \E ctrlKey \in BOOLEAN : WheelBy(ctrlKey)

ResetClick ==
  Deliver(LAMBDA m : resetClick(m),
          [hist EXCEPT !.session = NoSession,
                       !.resets = ResetsAfter(context /\ ~isResetRef),
                       !.posOwner = IF context /\ ~isResetRef THEN "reset" ELSE @,
                       !.resetInPan = IF context /\ ~isResetRef
                                      THEN hist.mousePan \/ hist.touchPan ELSE @])

Resize ==
  \E d \in Dims \ {props} :
    Deliver(LAMBDA m : resize(m, d),
            [hist EXCEPT !.session = NoSession, !.resized = TRUE,
                         !.resets = IF ~isResetRef THEN 1 ELSE 0,
                         !.posOwner = IF ~isResetRef THEN "reset" ELSE @,
                         !.resetInPan = IF ~isResetRef
                                        THEN hist.mousePan \/ hist.touchPan ELSE @])

CanvasNext ==
  \/ Mount
  \/ Render
  \/ MouseDown
  \/ MouseMove
  \/ MouseUp
  \/ TouchStart
  \/ TouchMove
  \/ TouchEnd
  \/ Wheel
  \/ ResetClick
  \/ Resize

InitPure == PureInit /\ CameraInit /\ CanvasInit

SpecPure == InitPure /\ [][PureNext]_vars

InitCamera == PureIdle /\ CameraInit /\ CanvasInit

SpecCamera == InitCamera /\ [][CameraNext]_vars

Init == PureIdle /\ CameraInit /\ CanvasInit

Next == CanvasNext

Spec == Init /\ [][Next]_vars

(***************************************************************************)
(* Properties of the pure functions (SpecPure)                             *)
(***************************************************************************)

\* C1: zoom anchoring.  For a camera with z > 0 and a scale delta giving a
\* new scale > 0, the canvas point under the anchor is the same before and
\* after zoomCamera.
ZoomAnchoring ==
  (res.op = "zoomCamera" /\ Positive(args.c.z) /\ Positive(res.out.z))
    => PointEq(screenToCanvas(args.p, args.c), screenToCanvas(args.p, res.out))

ZoomAnchoringWitness ==
  /\ res.op = "zoomCamera"
  /\ Positive(args.c.z)
  /\ Positive(res.out.z)
  /\ res.out.z # args.c.z
  /\ res.out.x # args.c.x
  /\ res.out.y # args.c.y
  /\ PointEq(screenToCanvas(args.p, args.c), screenToCanvas(args.p, res.out))

\* C2: round trip.  For a camera with z > 0, canvasToScreen undoes
\* screenToCanvas and screenToCanvas undoes canvasToScreen.
RoundTrip ==
  (res.op \in {"screenToCanvas", "canvasToScreen"} /\ Positive(args.c.z))
    => PointEq(res.back, args.p)

RoundTripWitness ==
  /\ res.op = "screenToCanvas"
  /\ Positive(args.c.z)
  /\ args.c.z # One
  /\ ~IsZero(args.c.x)
  /\ ~IsZero(args.c.y)
  /\ ~PointEq(res.out, args.p)
  /\ PointEq(res.back, args.p)

\* C9: pan linearity.  For a camera with z > 0, panning by two deltas in
\* turn gives the camera that panning by their sum gives.
PanLinearity ==
  (res.op = "panCamera" /\ Positive(args.c.z)) => CameraEq(res.twice, res.sum)

PanLinearityWitness ==
  /\ res.op = "panCamera"
  /\ Positive(args.c.z)
  /\ args.c.z # One
  /\ ~IsZero(res.d1.x) /\ ~IsZero(res.d1.y)
  /\ ~IsZero(res.d2.x) /\ ~IsZero(res.d2.y)
  /\ ~CameraEq(res.out, args.c)
  /\ CameraEq(res.twice, res.sum)

\* C13: the scale update of zoomCamera is multiplicative, z' = z - dz*z, and
\* a zoom anchored at (0,0) that gives a scale other than 0 leaves the offset
\* unchanged; the identity camera zoomed at (0,0) with dz = 1/2 becomes
\* {0, 0, 1/2}.
ZoomMultiplicative ==
  /\ CameraEq(zoomCamera(IdentityCamera, ORIGIN, Rat(1, 2)),
              [x |-> PZero, y |-> PZero, z |-> Rat(1, 2)])
  /\ res.op = "zoomCamera" =>
       /\ NumEq(res.out.z, Sub(args.c.z, Mul(res.dz, args.c.z)))
       /\ (PointEq(args.p, ORIGIN) /\ ~IsZero(res.out.z)) =>
            (NumEq(res.out.x, args.c.x) /\ NumEq(res.out.y, args.c.y))

ZoomMultiplicativeWitness ==
  /\ res.op = "zoomCamera"
  /\ PointEq(args.p, ORIGIN)
  /\ ~IsZero(args.c.x) /\ ~IsZero(args.c.y)
  /\ args.c.z # One
  /\ Positive(res.out.z)
  /\ ~NumEq(res.out.z, args.c.z)
  /\ NumEq(res.out.x, args.c.x) /\ NumEq(res.out.y, args.c.y)

\* C14: panCamera(c, dx, dy) is {x: c.x - dx/c.z, y: c.y - dy/c.z, z: c.z};
\* the identity camera panned by (100, 50) becomes {-100, -50, 1}.
PanCameraFormula ==
  /\ CameraEq(panCamera(IdentityCamera, Int2Num(100), Int2Num(50)),
              [x |-> Int2Num(-100), y |-> Int2Num(-50), z |-> One])
  /\ res.op = "panCamera" =>
       /\ NumEq(res.out.x, Sub(args.c.x, Div(res.d1.x, args.c.z)))
       /\ NumEq(res.out.y, Sub(args.c.y, Div(res.d1.y, args.c.z)))
       /\ res.out.z = args.c.z

PanCameraFormulaWitness ==
  /\ res.op = "panCamera"
  /\ args.c.z # One
  /\ ~IsZero(res.d1.x) /\ ~IsZero(res.d1.y)
  /\ ~NumEq(res.out.x, args.c.x) /\ ~NumEq(res.out.y, args.c.y)
  /\ ~NumEq(res.out.x, Sub(args.c.x, res.d1.x))
  /\ res.out.z = args.c.z

(***************************************************************************)
(* Properties of the incremental variant (Spec)                            *)
(***************************************************************************)
Settled == mounted /\ pending = <<>>

IdentityCameraState ==
  /\ NumEq(scale, One)
  /\ PointEq(offset, ORIGIN)
  /\ PointEq(viewportTopLeft, ORIGIN)

\* C3: the tracked scale is strictly positive in every reachable state,
\* whatever wheel events were delivered.
ScaleAlwaysPositive == Positive(scale)

PendingPan ==
  \E i \in 1..Len(pending) : pending[i].hook = "offset" /\ pending[i].kind = "add"

\* C4: a reset during a pan forces the gesture to Idle: until the next
\* pan-start no move event changes the offset (none is enqueued, none has been
\* rendered).
ResetForcesIdle ==
  hist.resetInPan => (~PendingPan /\ PointEq(offset, ORIGIN))

\* C5: once reset has run and its render has settled the camera is the
\* identity, and it still is after reset is called a second time.
ResetGivesIdentity ==
  hist.resets >= 1 => (Settled /\ IdentityCameraState)

\* C6: every handler observes the state the preceding handler left: once
\* rendered, the scale and viewportTopLeft are those that the same events
\* give when each is rendered before the next.
HandlersSeeLatestState ==
  Settled => (scale = serial.scale /\ viewportTopLeft = serial.viewportTopLeft)

Idle == ~hist.mousePan /\ ~hist.touchPan

\* the enqueued updates of the camera state (mousePos only tracks the pointer)
CameraUpdates(q) == SelectSeq(q, LAMBDA u : u.hook # "mousePos")

StaleGestureEvent == MouseMove \/ MouseUp \/ TouchMove \/ TouchEnd

\* C7: in Idle a pointer-move, pointer-up, touch-move or touch-end event
\* leaves the camera, the updates enqueued for it and the gesture state (the
\* last pointer position, the document listeners) unchanged.
StaleEventsAreNoOps ==
  [][(Idle /\ StaleGestureEvent) =>
       /\ UNCHANGED <<offset, scale, viewportTopLeft, transform>>
       /\ UNCHANGED <<lastMousePosRef, docListeners>>
       /\ CameraUpdates(pending') = CameraUpdates(pending)]_vars

\* a pointer-move was delivered in Idle after a pan that moved the camera
StaleEventsAreNoOpsWitness ==
  /\ Idle
  /\ ~offsetIsORIGIN
  /\ pending # <<>>
  /\ \A i \in 1..Len(pending) : pending[i].hook = "mousePos"

IsFinitePoint(p) == IsFinite(p.x) /\ IsFinite(p.y)

SessionDelta == diffPoints(hist.session.last, hist.session.p0)

\* C8: a pan session that starts at p0 from a finite camera of positive scale
\* z and whose last move is at pn has, once rendered, added pn - p0 to the
\* offset and subtracted (pn - p0) / z from viewportTopLeft, however its move
\* events were batched.
PanSessionAccumulation ==
  (/\ hist.session.clean
   /\ Settled
   /\ Positive(hist.session.scale0)
   /\ IsFinitePoint(hist.session.viewportTopLeft0)) =>
     /\ scale = hist.session.scale0
     /\ PointEq(offset, addPoints(hist.session.offset0, SessionDelta))
     /\ PointEq(viewportTopLeft,
                diffPoints(hist.session.viewportTopLeft0,
                           scalePoint(SessionDelta, hist.session.scale0)))

\* two moves rendered together in a session at a scale other than 1
PanSessionAccumulationWitness ==
  /\ hist.session.clean
  /\ Settled
  /\ Positive(hist.session.scale0)
  /\ ~NumEq(hist.session.scale0, One)
  /\ IsFinitePoint(hist.session.viewportTopLeft0)
  /\ hist.session.moves >= 2
  /\ hist.session.batched
  /\ hist.session.last # hist.session.p0

\* C11: wheel dispatch by modifier: a wheel event without ctrlKey pans and
\* leaves the scale unchanged: it enqueues no update of the scale.
PlainWheelKeepsScale ==
  [][WheelBy(FALSE) =>
       \A i \in 1..Len(pending') :
          pending'[i].hook = "scale" => (i <= Len(pending) /\ pending[i] = pending'[i])]_vars

\* C12: a wheel event and the render of its updates leave the gesture
\* tracking state unchanged: the document listeners of a pan in progress
\* and the last pan position.
ZoomKeepsGestureState ==
  [][(Wheel \/ Render) => UNCHANGED <<docListeners, lastMousePosRef>>]_vars

\* the updates of a wheel event are enqueued during a pan that has moved
ZoomKeepsGestureStateWitness ==
  /\ hist.mousePan
  /\ <<"mousemove", TRUE>> \in docListeners
  /\ lastMousePosRef \in EventPoints \ StartPoints
  /\ \E i \in 1..Len(pending) : pending[i].hook = "scale"

\* the transform computed from the state: scale(ratio * scale) composed with
\* translate(-viewportTopLeft)
TransformFromScratch(m) ==
  ctxTranslate(ctxScale(IdentityTransform, Mul(Int2Num(ratio), m.scale)),
               Neg(m.viewportTopLeft.x), Neg(m.viewportTopLeft.y))

TransformEq(t, u) == NumEq(t.a, u.a) /\ NumEq(t.e, u.e) /\ NumEq(t.f, u.f)

\* C15: when every pan, wheel and reset event is followed by its render and
\* layout effects (the machine serial), the transform accumulated on the
\* context equals the transform computed from scratch from a finite state of
\* positive scale.
TransformConsistent ==
  (/\ mounted
   /\ ~hist.resized
   /\ Positive(serial.scale)
   /\ IsFinitePoint(serial.viewportTopLeft)) =>
     TransformEq(serial.transform, TransformFromScratch(serial))

\* after a pan and a zoom: the scale is not 1, the viewport has moved
TransformConsistentWitness ==
  /\ mounted
  /\ ~hist.resized
  /\ Positive(serial.scale)
  /\ ~NumEq(serial.scale, One)
  /\ ~serial.offsetIsORIGIN
  /\ IsFinitePoint(serial.viewportTopLeft)
  /\ ~IsZero(serial.viewportTopLeft.x)
  /\ ~IsZero(serial.viewportTopLeft.y)
  /\ TransformEq(serial.transform, TransformFromScratch(serial))

Registered(type) == {l \in docListeners : l[1] = type}

\* C16: the document listeners of a device are registered exactly from its
\* pan-start to its pan-end, whatever was rendered in between: after mouseup
\* (touchend) none remains, and there is never more than one listener of a
\* type, which is the callback of the current render.
ListenerLifecycle ==
  /\ \A type \in {"mousemove", "mouseup"} :
        Registered(type) = IF hist.mousePan THEN {<<type, context>>} ELSE {}
  /\ \A type \in {"touchmove", "touchend"} :
        Registered(type) = IF hist.touchPan THEN {<<type, context>>} ELSE {}

\* both devices have ended a pan whose moves were rendered in between
ListenerLifecycleWitness ==
  /\ Settled
  /\ Idle
  /\ docListeners = {}
  /\ ~offsetIsORIGIN
  /\ hist.posOwner = "ended"

EnqueuedScale == pending[Len(pending)].val

EnqueuedViewportTopLeft == pending[Len(pending) - 1].val

\* the world point under the pointer
WorldUnderPointer(viewportTopLeft_, mousePos_, scale_) ==
  addPoints(viewportTopLeft_, scalePoint(mousePos_, scale_))

\* C17: for a state of positive scale and a wheel event of zoom factor other
\* than 0, the world point under the pointer is the same for the
\* viewportTopLeft and scale the handler sets as for those it read.
WheelAnchoring ==
  [][(/\ Wheel
      /\ Positive(scale)
      /\ IsFinitePoint(viewportTopLeft)
      /\ ~IsZero(EnqueuedScale')) =>
        PointEq(WorldUnderPointer(EnqueuedViewportTopLeft', mousePos, EnqueuedScale'),
                WorldUnderPointer(viewportTopLeft, mousePos, scale))]_vars

\* a zoom about a pointer away from the corner, at a scale other than 1, has
\* moved the viewport and kept the world point under the pointer
WheelAnchoringWitness ==
  /\ Positive(scale)
  /\ ~NumEq(scale, One)
  /\ ~IsZero(mousePos.x) /\ ~IsZero(mousePos.y)
  /\ IsFinitePoint(viewportTopLeft)
  /\ Len(pending) >= 2
  /\ pending[Len(pending)].hook = "scale"
  /\ pending[Len(pending) - 1].hook = "viewportTopLeft"
  /\ pending[Len(pending) - 1].kind = "set"
  /\ Positive(EnqueuedScale)
  /\ ~NumEq(EnqueuedScale, scale)
  /\ ~PointEq(EnqueuedViewportTopLeft, viewportTopLeft)
  /\ PointEq(WorldUnderPointer(EnqueuedViewportTopLeft, mousePos, EnqueuedScale),
             WorldUnderPointer(viewportTopLeft, mousePos, scale))

\* C18: a pan delta never spans gesture sessions: when a move handler
\* computes its delta, lastMousePosRef was recorded by the pan-start or a
\* move of the session of that device, not by reset, an earlier session or
\* the other device.
DeltaWithinSession ==
  [][/\ (MouseMove /\ <<"mousemove", TRUE>> \in docListeners) => hist.posOwner = "mouse"
     /\ (TouchMove /\ <<"touchmove", TRUE>> \in docListeners) => hist.posOwner = "touch"]_vars

\* C19: in a settled state with isResetRef set the camera is the identity;
\* every wheel event and every change of the rendered offset or scale
\* leaves the flag cleared, and a click on reset in a settled state whose
\* camera is not the identity resets it.
ResetFlagSound ==
  /\ []((Settled /\ isResetRef) => IdentityCameraState)
  /\ [][/\ Wheel => ~isResetRef'
        /\ (mounted /\ (scale' # scale \/ offset' # offset)) => ~isResetRef'
        /\ (ResetClick /\ Settled /\ ~IdentityCameraState) => IdentityCameraState']_vars

\* the flag stays set after a click on reset at the identity camera, here
\* during a pan that has not moved yet
ResetFlagSoundWitness ==
  /\ Settled
  /\ isResetRef
  /\ IdentityCameraState
  /\ hist.posOwner = "reset"
  /\ hist.mousePan
  /\ nEvents >= 3

\* C10: the reset guard is dimension-specific: the surface is always
\* configured by reset for the current dimensions.
ResetForCurrentDims ==
  mounted => resetDims = props

====
